---- MODULE Spec2Model ----
(***************************************************************************)
(* scripts/remove-white-edges.py: a one-shot command-line filter that      *)
(* opens an image, converts it to RGBA, scans it in row-major order and    *)
(* replaces every "white-ish" pixel by (0,0,0,0), then saves it as PNG.    *)
(*                                                                         *)
(* Arithmetic.  The script compares the Python floats (r+g+b)/3 and        *)
(* threshold*0.85.  The model keeps both as exact fractions and compares   *)
(* them by cross-multiplication.  For every channel sum 0..765 and every   *)
(* integer threshold the model uses, the double-precision comparison and   *)
(* the exact one agree (the quotient by 3 is correctly rounded, and the    *)
(* nearest other fraction is at least 1/60 away from a tie), so the exact  *)
(* comparison is what the interpreter computes.                            *)
(***************************************************************************)
EXTENDS Integers, Sequences, FiniteSets, TLC

VARIABLES
    argv,               \* sys.argv[1:], the arguments after the script name
    fs,                 \* the file system: path -> file
    fs0,                \* history: the file system when the run started
    pc,                 \* position of the run
    input_path, output_path, threshold,
    pixels, width, height, x, y, transparent_count,
    orig,               \* history: the buffer right after convert("RGBA")
    stdout,             \* the messages printed, in order
    uncaught,           \* an exception reached the interpreter (traceback)
    exit_code,          \* process exit status, -1 while running
    pass, first_out,    \* history: which application of the filter, and the first one's output
    pixels2, count2, visited,   \* a second buffer, and the positions visited on it, in order
    threshold2, tally   \* a second threshold, and per-condition match counts

vars == <<argv, fs, fs0, pc, input_path, output_path, threshold, pixels, width,
          height, x, y, transparent_count, orig, stdout, uncaught, exit_code,
          pass, first_out, pixels2, count2, visited, threshold2, tally>>

cliVars == <<argv, stdout, uncaught, exit_code>>
bufVars == <<pixels, width, height, x, y, transparent_count, orig>>
twiceVars == <<pass, first_out>>
orderVars == <<pixels2, count2, visited>>
monoVars == <<threshold2, tally>>

-----------------------------------------------------------------------------
(* Bounds of the model *)

MaxPixels == 4          \* an image has at most this many pixels (width*height)

-----------------------------------------------------------------------------
(* Program constants *)

DefaultThreshold == 240
OpaqueAlpha == 255
FactorNum == 85         \* 0.85 = 85/100
FactorDen == 100
MaxChannel == 255       \* 8-bit channels

None == "None"
Transparent == <<0, 0, 0, 0>>

-----------------------------------------------------------------------------
(* Files and images *)

Paths == {"in.png", "out.png"}

Absent  == [kind |-> "absent"]      \* no file at the path
Garbage == [kind |-> "garbage"]     \* a file that is no decodable image
Partial == [kind |-> "partial"]     \* what a failed write may leave behind

Positions(w, h) == (0 .. w - 1) \X (0 .. h - 1)

ImageFile(m, w, h, d) == [kind |-> "image", mode |-> m, width |-> w, height |-> h, data |-> d]

Exists(f) == f.kind # "absent"
Decodable(f) == f.kind = "image"

\* a conversion that drops the alpha channel: every pixel comes out opaque
ConvertPixel_opaque(m, p) == <<p[1], p[2], p[3], OpaqueAlpha>>

\* Image.convert("RGBA") on one pixel: RGB gets an opaque alpha, RGBA is kept.
ConvertPixel(m, p) ==
    IF m = "RGB" THEN <<p[1], p[2], p[3], OpaqueAlpha>> ELSE p

\* Image.open(path).convert("RGBA") followed by img.load(): the pixel buffer.
Convert(f) == [pos \in Positions(f.width, f.height) |-> ConvertPixel(f.mode, f.data[pos])]

-----------------------------------------------------------------------------
(* The three rules of the loop body *)

Sum(p) == p[1] + p[2] + p[3]

\* (r + g + b) / 3 as an exact fraction
Average(p) == [num |-> Sum(p), den |-> 3]

\* threshold * 0.85 as an exact fraction
Relaxed(T) == [num |-> T * FactorNum, den |-> FactorDen]

FracGeq(q1, q2) == q1.num * q2.den >= q2.num * q1.den

Whole(T) == [num |-> T, den |-> 1]

\* the comparison of rule 1 turned round
HardWhite_flipped(p, T) == p[1] <= T /\ p[2] <= T /\ p[3] <= T

HardWhite(p, T) == p[1] >= T /\ p[2] >= T /\ p[3] >= T

\* rule 2 with a strict comparison: an average equal to the threshold is not white
AverageWhite_strict(p, T) == ~FracGeq(Whole(T), Average(p))

AverageWhite(p, T) == FracGeq(Average(p), Whole(T))

TranslucentBright(p, T) == p[4] < OpaqueAlpha /\ FracGeq(Average(p), Relaxed(T))

\* the branch of the if/elif/elif chain that is taken, 0 when none is
Rule(p, T) ==
    IF HardWhite(p, T) THEN 1
    ELSE IF AverageWhite(p, T) THEN 2
    ELSE IF TranslucentBright(p, T) THEN 3
    ELSE 0

\* the loop body clearing only the alpha channel of a matching pixel
LoopBody_alphaOnly(buf, cnt, pos, T) ==
    IF Rule(buf[pos], T) # 0
    THEN [buf |-> [buf EXCEPT ![pos] = <<buf[pos][1], buf[pos][2], buf[pos][3], 0>>],
          cnt |-> cnt + 1]
    ELSE [buf |-> buf, cnt |-> cnt]

\* the loop body reading the alpha channel at a fixed index instead of at pos
LoopBody_staleAlpha(buf, cnt, pos, T) ==
    IF Rule(<<buf[pos][1], buf[pos][2], buf[pos][3], buf[<<0, 0>>][4]>>, T) # 0
    THEN [buf |-> [buf EXCEPT ![pos] = Transparent], cnt |-> cnt + 1]
    ELSE [buf |-> buf, cnt |-> cnt]

\* One iteration of the inner loop on buffer buf at position pos.
LoopBody(buf, cnt, pos, T) ==
    IF Rule(buf[pos], T) # 0
    THEN [buf |-> [buf EXCEPT ![pos] = Transparent], cnt |-> cnt + 1]
    ELSE [buf |-> buf, cnt |-> cnt]

-----------------------------------------------------------------------------
(* int(sys.argv[3]): an argument is a string, modelled as its characters *)

DigitChars == {"0", "1", "2", "3", "4", "5", "6", "7", "8", "9"}

DigitOf ==
    [c \in DigitChars |->
        CASE c = "0" -> 0 [] c = "1" -> 1 [] c = "2" -> 2 [] c = "3" -> 3
          [] c = "4" -> 4 [] c = "5" -> 5 [] c = "6" -> 6 [] c = "7" -> 7
          [] c = "8" -> 8 [] c = "9" -> 9]

Unsigned(tok) ==
    IF Len(tok) > 0 /\ tok[1] \in {"+", "-"} THEN Tail(tok) ELSE tok

\* int() accepts an optional sign followed by at least one decimal digit
IsInt(tok) ==
    /\ Len(Unsigned(tok)) > 0
    /\ \A i \in 1 .. Len(Unsigned(tok)) : Unsigned(tok)[i] \in DigitChars

RECURSIVE DecValue(_)
DecValue(s) ==
    IF s = <<>> THEN 0
    ELSE 10 * DecValue(SubSeq(s, 1, Len(s) - 1)) + DigitOf[s[Len(s)]]

IntValue(tok) ==
    IF Len(tok) > 0 /\ tok[1] = "-" THEN 0 - DecValue(Unsigned(tok))
    ELSE DecValue(Unsigned(tok))

-----------------------------------------------------------------------------
(* The command line: lines 52-70 *)

Exit(code) == pc' = "exit" /\ exit_code' = code

\* len(sys.argv) < 2: print the usage and leave with status 1
Usage ==
    /\ pc = "start"
    /\ Len(argv) < 1
    /\ stdout' = stdout \o <<"usage", "example">>
    /\ Exit(1)
    /\ UNCHANGED <<argv, fs, fs0, input_path, output_path, threshold, uncaught>>
    /\ UNCHANGED <<bufVars, twiceVars, orderVars, monoVars>>

\* the arguments read with the threshold clamped to 0..255
ParseArgs_clamp ==
    /\ pc = "start"
    /\ Len(argv) >= 1
    /\ input_path' = argv[1]
    /\ output_path' = IF Len(argv) > 1 THEN argv[2] ELSE None
    /\ IF Len(argv) > 2
       THEN IF IsInt(argv[3])
            THEN /\ threshold' = IF IntValue(argv[3]) < 0 THEN 0
                                  ELSE IF IntValue(argv[3]) > MaxChannel THEN MaxChannel
                                  ELSE IntValue(argv[3])
                 /\ pc' = "check"
                 /\ UNCHANGED <<uncaught, exit_code>>
            ELSE /\ uncaught' = TRUE
                 /\ Exit(1)
                 /\ UNCHANGED threshold
       ELSE /\ threshold' = DefaultThreshold
            /\ pc' = "check"
            /\ UNCHANGED <<uncaught, exit_code>>
    /\ UNCHANGED <<argv, fs, fs0, stdout>>
    /\ UNCHANGED <<bufVars, twiceVars, orderVars, monoVars>>

\* input_path, output_path and threshold from the arguments; a threshold that
\* int() rejects raises ValueError outside the try block
ParseArgs ==
    /\ pc = "start"
    /\ Len(argv) >= 1
    /\ input_path' = argv[1]
    /\ output_path' = IF Len(argv) > 1 THEN argv[2] ELSE None
    /\ IF Len(argv) > 2
       THEN IF IsInt(argv[3])
            THEN /\ threshold' = IntValue(argv[3])
                 /\ pc' = "check"
                 /\ UNCHANGED <<uncaught, exit_code>>
            ELSE /\ uncaught' = TRUE
                 /\ Exit(1)
                 /\ UNCHANGED threshold
       ELSE /\ threshold' = DefaultThreshold
            /\ pc' = "check"
            /\ UNCHANGED <<uncaught, exit_code>>
    /\ UNCHANGED <<argv, fs, fs0, stdout>>
    /\ UNCHANGED <<bufVars, twiceVars, orderVars, monoVars>>

\* not os.path.exists(input_path)
NotFound ==
    /\ pc = "check"
    /\ ~Exists(fs[input_path])
    /\ stdout' = Append(stdout, "notfound")
    /\ Exit(1)
    /\ UNCHANGED <<argv, fs, fs0, input_path, output_path, threshold, uncaught>>
    /\ UNCHANGED <<bufVars, twiceVars, orderVars, monoVars>>

\* the try block is entered and remove_white_edges is called
Call ==
    /\ pc = "check"
    /\ Exists(fs[input_path])
    /\ pc' = "call"
    /\ UNCHANGED <<fs, fs0, input_path, output_path, threshold>>
    /\ UNCHANGED <<cliVars, bufVars, twiceVars, orderVars, monoVars>>

\* remove_white_edges returned: the script runs off its end, status 0
Return ==
    /\ pc = "returned"
    /\ Exit(0)
    /\ UNCHANGED <<argv, fs, fs0, input_path, output_path, threshold, stdout, uncaught>>
    /\ UNCHANGED <<bufVars, twiceVars, orderVars, monoVars>>

\* except Exception as e: print the error and leave with status 1
Catch ==
    /\ pc = "raised"
    /\ stdout' = Append(stdout, "error")
    /\ Exit(1)
    /\ UNCHANGED <<argv, fs, fs0, input_path, output_path, threshold, uncaught>>
    /\ UNCHANGED <<bufVars, twiceVars, orderVars, monoVars>>

-----------------------------------------------------------------------------
(* remove_white_edges: lines 9-50 *)

\* the output file created before the input is decoded
Open_early ==
    /\ pc = "call"
    /\ output_path' = IF output_path = None THEN input_path ELSE output_path
    /\ IF Decodable(fs[input_path])
       THEN /\ pixels' = Convert(fs[input_path])
            /\ orig' = Convert(fs[input_path])
            /\ width' = fs[input_path].width
            /\ height' = fs[input_path].height
            /\ x' = 0
            /\ y' = 0
            /\ transparent_count' = 0
            /\ pc' = "scan"
            /\ UNCHANGED fs
       ELSE /\ pc' = "raised"
            /\ fs' = [fs EXCEPT ![output_path'] = Partial]
            /\ UNCHANGED bufVars
    /\ UNCHANGED <<fs0, input_path, threshold>>
    /\ UNCHANGED <<cliVars, twiceVars, orderVars, monoVars>>

\* lines 18-27: default the output path, open and convert, start the scan
Open ==
    /\ pc = "call"
    /\ output_path' = IF output_path = None THEN input_path ELSE output_path
    /\ IF Decodable(fs[input_path])
       THEN /\ pixels' = Convert(fs[input_path])
            /\ orig' = Convert(fs[input_path])
            /\ width' = fs[input_path].width
            /\ height' = fs[input_path].height
            /\ x' = 0
            /\ y' = 0
            /\ transparent_count' = 0
            /\ pc' = "scan"
       ELSE /\ pc' = "raised"
            /\ UNCHANGED bufVars
    /\ UNCHANGED <<fs, fs0, input_path, threshold>>
    /\ UNCHANGED <<cliVars, twiceVars, orderVars, monoVars>>

\* the loop counters after one iteration of "for y ... for x ..."
Advance ==
    IF x + 1 < width
    THEN x' = x + 1 /\ y' = y
    ELSE x' = 0 /\ y' = y + 1

\* lines 28-44: one iteration of the loops, at (x, y)
ScanCore ==
    /\ pc = "scan"
    /\ y < height
    /\ LET r == LoopBody(pixels, transparent_count, <<x, y>>, threshold)
       IN  /\ pixels' = r.buf
           /\ transparent_count' = r.cnt
    /\ Advance
    /\ UNCHANGED <<pc, fs, fs0, input_path, output_path, threshold, width, height, orig>>
    /\ UNCHANGED <<cliVars, twiceVars, orderVars>>

ScanStep == ScanCore /\ UNCHANGED monoVars

\* the image saved over the input whatever the output path is
SaveOk_toInput ==
    /\ pc = "scan"
    /\ y = height
    /\ fs' = [fs EXCEPT ![input_path] = ImageFile("RGBA", width, height, pixels)]
    /\ stdout' = stdout \o <<"done", "saved">>
    /\ pc' = "returned"
    /\ UNCHANGED <<argv, uncaught, exit_code, fs0, input_path, output_path, threshold>>
    /\ UNCHANGED <<bufVars, twiceVars, orderVars, monoVars>>

\* lines 47-50: img.save succeeds, the two messages are printed, the count is returned
SaveOk ==
    /\ pc = "scan"
    /\ y = height
    /\ fs' = [fs EXCEPT ![output_path] = ImageFile("RGBA", width, height, pixels)]
    /\ stdout' = stdout \o <<"done", "saved">>
    /\ pc' = "returned"
    /\ UNCHANGED <<argv, uncaught, exit_code, fs0, input_path, output_path, threshold>>
    /\ UNCHANGED <<bufVars, twiceVars, orderVars, monoVars>>

\* line 47: img.save raises; the file at the output path is as it was or cut short
SaveFail ==
    /\ pc = "scan"
    /\ y = height
    /\ fs' \in {fs, [fs EXCEPT ![output_path] = Partial]}
    /\ pc' = "raised"
    /\ UNCHANGED <<fs0, input_path, output_path, threshold>>
    /\ UNCHANGED <<cliVars, bufVars, twiceVars, orderVars, monoVars>>

Save == SaveOk \/ SaveFail

-----------------------------------------------------------------------------
(* Inputs *)

White  == <<255, 255, 255, 255>>
Bright == <<230, 230, 230, 100>>
Dark   == <<10, 10, 10, 200>>

SmallPalette == {White, Bright, Dark, <<0, 0, 0, 0>>}

BigChannels == {0, 203, 204, 210, 230, 240, MaxChannel}
BigAlphas == {0, 100, MaxChannel}
BigPalette == {<<r, g, b, a>> : r \in BigChannels, g \in BigChannels,
                                b \in BigChannels, a \in BigAlphas}

RGBPalette == {<<255, 255, 255>>, <<10, 10, 10>>}

Thresholds == {-1, 0, 1, 204, 240, 255, 256}

Shapes(n) == {s \in (1 .. n) \X (1 .. n) : s[1] * s[2] <= n}

ImagesOver(m, palette, shapes) ==
    UNION {{ImageFile(m, s[1], s[2], d) : d \in [Positions(s[1], s[2]) -> palette]} :
           s \in shapes}

\* single pixels over the big palette, larger images over the small one
FilterImages ==
    ImagesOver("RGBA", BigPalette, {<<1, 1>>})
        \cup ImagesOver("RGBA", SmallPalette, Shapes(MaxPixels) \ {<<1, 1>>})
        \cup ImagesOver("RGB", RGBPalette, Shapes(2))

\* the state before anything ran
Idle ==
    /\ fs = fs0
    /\ pixels = <<>>
    /\ orig = <<>>
    /\ width = 0
    /\ height = 0
    /\ x = 0
    /\ y = 0
    /\ transparent_count = 0
    /\ stdout = <<>>
    /\ uncaught = FALSE
    /\ exit_code = -1
    /\ pass = 1
    /\ first_out = Absent
    /\ pixels2 = <<>>
    /\ count2 = 0
    /\ visited = <<>>
    /\ tally = [hard1 |-> 0, hard2 |-> 0, avg1 |-> 0, avg2 |-> 0]

\* remove_white_edges(input_path, output_path, threshold) called directly
InitCall(images, outs, thresholds) ==
    /\ argv = <<>>
    /\ threshold2 = DefaultThreshold
    /\ fs0 \in {[p \in Paths |-> IF p = "in.png" THEN f ELSE Absent] : f \in images}
    /\ pc = "call"
    /\ input_path = "in.png"
    /\ output_path \in outs
    /\ threshold \in thresholds
    /\ Idle

InitFilter == InitCall(FilterImages \cup {Absent, Garbage}, {None, "out.png"}, Thresholds)

NextFilter == Open \/ ScanStep \/ Save

SpecFilter == InitFilter /\ [][NextFilter]_vars

-----------------------------------------------------------------------------
(* The script run from the command line *)

ThresholdArgs ==
    {<<"2", "4", "0">>, <<"0">>, <<"-", "1">>, <<"2", "5", "6">>,
     <<"a", "b", "c">>, <<>>}

ArgVectors ==
    {<<>>}
        \cup {<<i>> : i \in Paths}
        \cup {<<i, o>> : i \in Paths, o \in Paths}
        \cup {<<i, o, t>> : i \in Paths, o \in Paths, t \in ThresholdArgs}

CliImages ==
    ImagesOver("RGBA", SmallPalette, Shapes(MaxPixels))
        \cup ImagesOver("RGB", RGBPalette, Shapes(2))

Init ==
    /\ argv \in ArgVectors
    /\ fs0 \in {[p \in Paths |-> IF p = "in.png" THEN f ELSE g] :
                    f \in CliImages \cup {Absent, Garbage}, g \in {Absent, Garbage}}
    /\ pc = "start"
    /\ input_path = None
    /\ output_path = None
    /\ threshold = DefaultThreshold
    /\ threshold2 = DefaultThreshold
    /\ Idle

Next ==
    \/ Usage
    \/ ParseArgs
    \/ NotFound
    \/ Call
    \/ Open
    \/ ScanStep
    \/ Save
    \/ Return
    \/ Catch

Spec == Init /\ [][Next]_vars

-----------------------------------------------------------------------------
(* The filter applied a second time, to its own output, with the same threshold *)

Again ==
    /\ pc = "returned"
    /\ pass = 1
    /\ pass' = 2
    /\ first_out' = fs[output_path]
    /\ input_path' = output_path
    /\ pc' = "call"
    /\ UNCHANGED <<fs, fs0, output_path, threshold>>
    /\ UNCHANGED <<cliVars, bufVars, orderVars, monoVars>>

InitTwice == InitCall(FilterImages, {None, "out.png"}, Thresholds)

NextTwice == Open \/ ScanStep \/ Save \/ Again

SpecTwice == InitTwice /\ [][NextTwice]_vars

-----------------------------------------------------------------------------
(* The loop body applied to every position once, in an arbitrary order, on a
   second copy of the converted image, after the row-major scan *)

Range(seq) == {seq[i] : i \in 1 .. Len(seq)}

VisitAny ==
    /\ pc = "scan"
    /\ y = height
    /\ \E pos \in DOMAIN orig \ Range(visited) :
          LET r == LoopBody(IF visited = <<>> THEN orig ELSE pixels2, count2, pos, threshold)
          IN  /\ pixels2' = r.buf
              /\ count2' = r.cnt
              /\ visited' = Append(visited, pos)
    /\ UNCHANGED <<pc, fs, fs0, input_path, output_path, threshold>>
    /\ UNCHANGED <<cliVars, bufVars, twiceVars, monoVars>>

InitOrder == InitCall(CliImages, {None}, {DefaultThreshold})

NextOrder == Open \/ ScanStep \/ VisitAny

SpecOrder == InitOrder /\ [][NextOrder]_vars

-----------------------------------------------------------------------------
(* The scan with the pixels that satisfy the conditions of rule 1 and of rule 2
   counted, for the threshold of the run and for a second threshold *)

Bump(n, cond) == IF cond THEN n + 1 ELSE n

MonoStep ==
    /\ ScanCore
    /\ LET p == pixels[<<x, y>>]
       IN  tally' = [hard1 |-> Bump(tally.hard1, HardWhite(p, threshold)),
                     hard2 |-> Bump(tally.hard2, HardWhite(p, threshold2)),
                     avg1  |-> Bump(tally.avg1, AverageWhite(p, threshold)),
                     avg2  |-> Bump(tally.avg2, AverageWhite(p, threshold2))]
    /\ UNCHANGED threshold2

InitMono ==
    /\ argv = <<>>
    /\ threshold2 \in Thresholds
    /\ fs0 \in {[p \in Paths |-> IF p = "in.png" THEN f ELSE Absent] : f \in FilterImages}
    /\ pc = "call"
    /\ input_path = "in.png"
    /\ output_path = None
    /\ threshold \in Thresholds
    /\ Idle

NextMono == Open \/ MonoStep

SpecMono == InitMono /\ [][NextMono]_vars

-----------------------------------------------------------------------------
(* Properties *)

Zero == <<0, 0, 0, 0>>

Loaded == pc \in {"scan", "returned"}

ScanDone == pc = "scan" /\ y = height

\* the three rules as the specification states them, in whole numbers
Matches(p, T) ==
    \/ p[1] >= T /\ p[2] >= T /\ p[3] >= T
    \/ p[1] + p[2] + p[3] >= 3 * T
    \/ p[4] < 255 /\ 20 * (p[1] + p[2] + p[3]) >= 51 * T

Expected(p, T) == IF Matches(p, T) THEN Zero ELSE p

\* C1: for a threshold in 0..255, every pixel of the scanned buffer and of the
\* saved image is (0,0,0,0) when one of the three rules holds of the input pixel
\* at that position, and is the input pixel, alpha included, otherwise.
C1_PixelRule ==
    (pass = 1 /\ threshold \in 0 .. 255) =>
        /\ ScanDone => \A pos \in DOMAIN orig : pixels[pos] = Expected(orig[pos], threshold)
        /\ pc = "returned" =>
              \A pos \in DOMAIN orig :
                  fs[output_path].data[pos] = Expected(orig[pos], threshold)

\* a saved image with a pixel zeroed by rule 2 alone or by rule 3 alone, and one kept
C1_Witness ==
    /\ pc = "returned"
    /\ threshold \in 1 .. 255
    /\ \E pos \in DOMAIN orig :
          LET p == orig[pos]
          IN  /\ fs[output_path].data[pos] = Zero
              /\ ~(p[1] >= threshold /\ p[2] >= threshold /\ p[3] >= threshold)
              /\ p[1] + p[2] + p[3] < 3 * threshold
    /\ \E pos \in DOMAIN orig :
          /\ orig[pos][4] \in 1 .. 254
          /\ fs[output_path].data[pos] = orig[pos]

\* the file the current application of the filter read
InputFile == IF pass = 1 THEN fs0[input_path] ELSE first_out

\* C2: at every point of the scan and in the saved image, every pixel is either
\* its original RGBA value or exactly (0,0,0,0), and the width and height are
\* those of the input.
C2_AllOrNothing ==
    /\ Loaded =>
          /\ width = InputFile.width
          /\ height = InputFile.height
          /\ DOMAIN pixels = Positions(width, height)
          /\ DOMAIN orig = Positions(width, height)
          /\ \A pos \in DOMAIN pixels : pixels[pos] = orig[pos] \/ pixels[pos] = Zero
    /\ pc = "returned" =>
          /\ fs[output_path].kind = "image"
          /\ fs[output_path].width = width
          /\ fs[output_path].height = height
          /\ DOMAIN fs[output_path].data = Positions(width, height)
          /\ \A pos \in DOMAIN orig :
                fs[output_path].data[pos] = orig[pos] \/ fs[output_path].data[pos] = Zero

\* in the middle of a scan: one pixel already zeroed, a later one still to visit
C2_Witness ==
    /\ pc = "scan"
    /\ y < height
    /\ \E pos \in DOMAIN pixels : pixels[pos] = Zero /\ orig[pos] # Zero
    /\ \E pos \in DOMAIN pixels : pixels[pos] = orig[pos] /\ orig[pos] # Zero

\* the positions where the saved image differs from the input
Changed == {pos \in DOMAIN orig : fs[output_path].data[pos] # orig[pos]}

\* C3: for a threshold in 0..255 the returned count is the number of positions
\* whose RGBA value in the output differs from the input.
C3_CountIsChanged ==
    (pc = "returned" /\ pass = 1 /\ threshold \in 0 .. 255) =>
        transparent_count = Cardinality(Changed)

\* C4: a second application with the same threshold, to the output of the
\* first, changes no pixel and saves an image identical to the first output.
C4_Idempotent ==
    (pass = 2 /\ threshold \in 0 .. 255) =>
        /\ Loaded => pixels = orig /\ orig = first_out.data
        /\ pc = "returned" => fs[output_path] = first_out

\* the second application finished on an image the first one had changed
C4_Witness ==
    /\ pass = 2
    /\ pc = "returned"
    /\ threshold \in 0 .. 255
    /\ \E pos \in DOMAIN orig : orig[pos] = Zero /\ Convert(fs0["in.png"])[pos] # Zero
    /\ \E pos \in DOMAIN orig : orig[pos] # Zero

\* C5: a run whose input does not exist or cannot be decoded leaves every file
\* as it was and ends with status 1 and an error message; the file system only
\* ever differs from the initial one after the input was opened, converted and
\* scanned to the end.
C5_NoOutputOnEarlyFailure ==
    /\ fs # fs0 =>
          /\ pc \in {"returned", "raised", "exit"}
          /\ Decodable(fs0[input_path])
          /\ DOMAIN orig = Positions(fs0[input_path].width, fs0[input_path].height)
          /\ height = fs0[input_path].height
          /\ y = height
    /\ (pc = "exit" /\ Len(argv) >= 1 /\ ~uncaught /\ ~Decodable(fs0[argv[1]])) =>
          /\ fs = fs0
          /\ exit_code = 1
          /\ stdout \in {<<"notfound">>, <<"error">>}

\* a run on an undecodable input, with another output path, that has ended
C5_Witness ==
    /\ pc = "exit"
    /\ Len(argv) >= 2
    /\ argv[2] # argv[1]
    /\ fs0[argv[1]] = Garbage
    /\ stdout = <<"error">>

\* load, scan and save all succeeded
Succeeded ==
    /\ stdout = <<"done", "saved">>
    /\ height > 0
    /\ y = height
    /\ fs[output_path] = ImageFile("RGBA", width, height, pixels)

\* C6: the run exits with 0 exactly when load, scan and save succeeded and with 1
\* otherwise, and every failure is caught and reported by a message of the script.
C6_ExitCodes ==
    pc = "exit" =>
        /\ exit_code \in {0, 1}
        /\ exit_code = 0 <=> Succeeded
        /\ exit_code = 1 =>
              /\ ~uncaught
              /\ stdout \in {<<"usage", "example">>, <<"notfound">>, <<"error">>}

\* the path the run writes to
OutArg == IF Len(argv) > 1 THEN argv[2] ELSE argv[1]

\* C7: a run writes no file but the output path, which is the input path when
\* none is given: then a successful run leaves the filtered image in the input
\* file; with a different output path the input file is never changed.
C7_SingleOutput ==
    /\ Len(argv) = 0 => fs = fs0
    /\ Len(argv) >= 1 => \A p \in Paths \ {OutArg} : fs[p] = fs0[p]
    /\ (Len(argv) = 1 /\ (pc = "returned" \/ (pc = "exit" /\ exit_code = 0))) =>
          /\ y = height
          /\ fs[argv[1]] = ImageFile("RGBA", width, height, pixels)
    /\ (Len(argv) >= 2 /\ argv[2] # argv[1]) => fs[argv[1]] = fs0[argv[1]]

\* a successful run without an output path that changed the input file
C7_Witness ==
    /\ pc = "exit"
    /\ exit_code = 0
    /\ Len(argv) = 1
    /\ fs[argv[1]] # fs0[argv[1]]
    /\ pixels # orig

C9_OrderIndependent ==
    (ScanDone /\ Len(visited) = Cardinality(DOMAIN orig)) =>
        /\ pixels2 = pixels
        /\ count2 = transparent_count

\* every position visited, the last one of the row-major order first, and the
\* image changed in part
C9_Witness ==
    /\ ScanDone
    /\ Len(visited) = Cardinality(DOMAIN orig)
    /\ Len(visited) >= 3
    /\ visited[1] = <<width - 1, height - 1>>
    /\ pixels2 # orig
    /\ \E pos \in DOMAIN orig : pixels2[pos] # Zero

\* C10: the threshold argument is used as given, without a range check; above
\* 255 no pixel takes the branch of rule 1; below 0 every pixel is zeroed and
\* the count is width*height.
C10_UnvalidatedThreshold ==
    /\ (pc # "start" /\ Len(argv) > 2 /\ argv[3] = <<"-", "1">>) => threshold = -1
    /\ (pc # "start" /\ Len(argv) > 2 /\ argv[3] = <<"2", "5", "6">>) => threshold = 256
    /\ (Loaded /\ threshold > 255) => \A pos \in DOMAIN orig : Rule(orig[pos], threshold) # 1
    /\ (threshold < 0 /\ (ScanDone \/ pc = "returned")) =>
          /\ \A pos \in DOMAIN orig : pixels[pos] = Zero
          /\ transparent_count = width * height
    /\ (threshold < 0 /\ pc = "returned") =>
          \A pos \in DOMAIN orig : fs[output_path].data[pos] = Zero

\* a successful run with threshold -1 on an image with a pixel that was not zero
C10_Witness ==
    /\ pc = "exit"
    /\ exit_code = 0
    /\ Len(argv) > 2
    /\ threshold < 0
    /\ \E pos \in DOMAIN orig : orig[pos] # Zero
    /\ \A pos \in DOMAIN orig : fs[output_path].data[pos] = Zero

====
